---- MODULE Spec2Model ----
(***************************************************************************)
(* Model of firehoser.js: DeliveryStream (validate, chunk, dispatch with   *)
(* bounded parallelism, drain with per-record retries) and                 *)
(* QueueableDeliveryStream (buffer, size/time triggered flush, one shared  *)
(* promise per buffering cycle).                                           *)
(*                                                                         *)
(* JavaScript runs handlers to completion on one thread.  Every action     *)
(* below is one macrotask (a user call, a timer, a transport callback)     *)
(* together with the promise jobs it queues, except that the promise job   *)
(* which clears this.promise runs after the reactions of the callers       *)
(* waiting on the handle, so that job is an action of its own (Reset).     *)
(***************************************************************************)
EXTENDS Integers, Sequences, FiniteSets, TLC

\* ---------------------------------------------------------------- bounds
MaxRecords == 2
MaxBatch == 2
MaxImmediates == 1
MaxDirect == 5
WideRecords == 3
MaxLive == 3

\* ------------------------------------------------------ program constants
maxIngestion == 2
maxDrains == 2
maxRetries == 2
maxSize == 2

\* ----------------------------------------------------------------- values
NULL == [isNull |-> TRUE]

\* The caller's records: opaque values, told apart by their text.
RecordNames == <<"a", "b", "c", "d", "e", "f", "g", "h">>

Record(i) == [text |-> RecordNames[i]]

ErrorCodes == {"ServiceUnavailableException"}

FirehoseErrs == {[code |-> "NetworkingError"]}

\* The schemas a stream is constructed with: none, or one that the
\* records in `rejects` violate.
Schemas == {NULL, [rejects |-> {"a"}]}

Min(a, b) == IF a < b THEN a ELSE b

Map(s, F(_)) == [i \in 1..Len(s) |-> F(s[i])]

RECURSIVE Concat(_)
Concat(ss) == IF ss = <<>> THEN <<>> ELSE Head(ss) \o Concat(Tail(ss))

Range(s) == {s[i] : i \in 1..Len(s)}

VARIABLES
    schema,        \* this.schema
    queue,         \* this.queue
    promise,       \* this.promise: 0 is null, h > 0 the h-th promise created
    resolver,      \* this.resolver: 0 is null/undefined, h the resolve function of promise h
    rejecter,      \* this.rejecter: likewise
    handles,       \* the promises created by QueueableDeliveryStream.putRecords
    immediates,    \* number of pending setImmediate(drainQueue) callbacks
    subs,          \* the DeliveryStream.putRecords submissions made so far
    resetPending,  \* submission whose final .then(() => {...}) job is queued, or 0
    reacting,      \* TRUE while the callers' reactions to a just settled handle may run
    owner          \* history: owner[i] is the handle returned to the call that passed Record(i)

vars == <<schema, queue, promise, resolver, rejecter, handles, immediates,
          subs, resetPending, reacting, owner>>

\* ------------------------------------------------------- DeliveryStream
isEmpty(x) == x = <<>>

buildSchemaErrorDescription(ve) == ve.desc

\* schemaValidator.validate(record, this.schema): the list of violations
validateRecord(record) ==
    IF record.text \in schema.rejects
    THEN <<[desc |-> "rejected " \o record.text]>>
    ELSE <<>>

schemaError(record) ==
    LET ve == validateRecord(record)[1]
    IN  [type |-> "schema",
         originalRecord |-> record,
         description |-> buildSchemaErrorDescription(ve),
         details |-> ve]

\* Mutation of validateRecords: a rejected record is reported and still
\* kept among the valid ones.
MutValidateRecords(records) ==
    IF schema = NULL
    THEN <<records, <<>>>>
    ELSE <<records,
           Map(SelectSeq(records, LAMBDA r : ~isEmpty(validateRecord(r))), schemaError)>>

validateRecords(records) ==
    IF schema = NULL
    THEN <<records, <<>>>>
    ELSE <<SelectSeq(records, LAMBDA r : isEmpty(validateRecord(r))),
           Map(SelectSeq(records, LAMBDA r : ~isEmpty(validateRecord(r))), schemaError)>>

formatRecord(record) == [Data |-> record.text \o "\n"]

\* Mutation of chunk: a last chunk that is not full is dropped.
MutChunk(array, size) ==
    [i \in 1..(Len(array) \div size) |->
        SubSeq(array, (i - 1) * size + 1, Min(i * size, Len(array)))]

chunk(array, size) ==
    [i \in 1..((Len(array) + size - 1) \div size) |->
        SubSeq(array, (i - 1) * size + 1, Min(i * size, Len(array)))]

pickData(leftover) == [Data |-> leftover.originalRecord.Data]

\* ------------------------------------------------------------------ drain
\* One per-position entry of a putRecordBatch response.
okResponse == [RecordId |-> "id"]

errorResponse(code) == [ErrorCode |-> code, ErrorMessage |-> code \o " message"]

\* What the transport can answer to a batch of n records: an error for the
\* whole call, or one entry per submitted record.
BatchOutcomes(n) ==
    {[firehoseErr |-> e, resp |-> NULL] : e \in FirehoseErrs}
    \cup {[firehoseErr |-> NULL, resp |-> [RequestResponses |-> rr]] :
             rr \in [1..n -> {okResponse} \cup {errorResponse(c) : c \in ErrorCodes}]}

isUndefinedErrorCode(result) == "ErrorCode" \notin DOMAIN result

zip(xs, ys) == [i \in 1..Len(xs) |-> <<xs[i], ys[i]>>]

firehoseBatchError(firehoseErr) ==
    [type |-> "firehose",
     description |-> "Internal aws-sdk error.",
     details |-> firehoseErr,
     originalRecord |-> NULL]

firehoseRecordError(pair) ==
    [type |-> "firehose",
     description |-> pair[2].ErrorMessage,
     details |-> [ErrorCode |-> pair[2].ErrorCode, ErrorMessage |-> pair[2].ErrorMessage],
     originalRecord |-> pair[1]]

\* Mutation of collectLeftovers: the errors are collected with unshift, in
\* reverse order.
MutCollectLeftovers(records, resp) ==
    LET ls == Map(SelectSeq(zip(records, resp.RequestResponses),
                            LAMBDA pair : ~isUndefinedErrorCode(pair[2])),
                  firehoseRecordError)
    IN  [i \in 1..Len(ls) |-> ls[Len(ls) + 1 - i]]

\* the loop of drain's callback: one error per position that carries an ErrorCode
collectLeftovers(records, resp) ==
    Map(SelectSeq(zip(records, resp.RequestResponses),
                  LAMBDA pair : ~isUndefinedErrorCode(pair[2])),
        firehoseRecordError)

\* Mutation of shouldRecurse: the test of leftovers.length is missing.
MutShouldRecurseEmpty(leftovers, numRetries) ==
    numRetries < maxRetries

\* Mutation of shouldRecurse: the retry ceiling is off by one.
MutShouldRecurse(leftovers, numRetries) ==
    Len(leftovers) > 0 /\ numRetries <= maxRetries

shouldRecurse(leftovers, numRetries) ==
    Len(leftovers) > 0 /\ numRetries < maxRetries

\* A task of async.parallelLimit that has not been started.
waitingTask(records) ==
    [st |-> "waiting", records |-> records, numRetries |-> 0, result |-> NULL,
     sent |-> <<>>, resps |-> <<>>]

\* Mutation of drain: a retry sends the whole chunk again.
MutDrain(task, records, numRetries) ==
    [task EXCEPT !.st = "sending",
                 !.records = IF task.sent = <<>> THEN records ELSE task.sent[1],
                 !.numRetries = numRetries,
                 !.sent = Append(@, IF task.sent = <<>> THEN records ELSE task.sent[1])]

\* drain(records, cb, numRetries) up to the putRecordBatch call; `sent` and
\* `resps` are history: the batches passed to the transport and its answers.
drain(task, records, numRetries) ==
    [task EXCEPT !.st = "sending", !.records = records, !.numRetries = numRetries,
                 !.sent = Append(@, records)]

\* Mutation of drainCallback: a call that failed as a whole is retried
\* like a per-record failure.
MutDrainCallback(task, firehoseErr, resp) ==
    LET t == [task EXCEPT !.resps = Append(@, [firehoseErr |-> firehoseErr, resp |-> resp])]
    IN  IF firehoseErr # NULL
        THEN IF task.numRetries < maxRetries
             THEN [t EXCEPT !.st = "sleeping"]
             ELSE [t EXCEPT !.st = "done",
                            !.result = [isArray |-> FALSE,
                                        value |-> firehoseBatchError(firehoseErr)]]
        ELSE LET leftovers == collectLeftovers(task.records, resp)
             IN  IF shouldRecurse(leftovers, task.numRetries)
                 THEN [t EXCEPT !.st = "sleeping", !.records = Map(leftovers, pickData)]
                 ELSE [t EXCEPT !.st = "done",
                                !.result = [isArray |-> TRUE, value |-> leftovers]]

\* Mutation of drainCallback: on a call that failed as a whole, cb is
\* never called.
MutDrainCallbackLost(task, firehoseErr, resp) ==
    LET t == [task EXCEPT !.resps = Append(@, [firehoseErr |-> firehoseErr, resp |-> resp])]
    IN  IF firehoseErr # NULL
        THEN [t EXCEPT !.st = "lost"]
        ELSE LET leftovers == collectLeftovers(task.records, resp)
             IN  IF shouldRecurse(leftovers, task.numRetries)
                 THEN [t EXCEPT !.st = "sleeping", !.records = Map(leftovers, pickData)]
                 ELSE [t EXCEPT !.st = "done",
                                !.result = [isArray |-> TRUE, value |-> leftovers]]

\* The callback drain passes to putRecordBatch.
drainCallback(task, firehoseErr, resp) ==
    LET t == [task EXCEPT !.resps = Append(@, [firehoseErr |-> firehoseErr, resp |-> resp])]
    IN  IF firehoseErr # NULL
        THEN [t EXCEPT !.st = "done",
                       !.result = [isArray |-> FALSE, value |-> firehoseBatchError(firehoseErr)]]
        ELSE LET leftovers == collectLeftovers(task.records, resp)
             IN  IF shouldRecurse(leftovers, task.numRetries)
                 THEN [t EXCEPT !.st = "sleeping", !.records = Map(leftovers, pickData)]
                 ELSE [t EXCEPT !.st = "done",
                                !.result = [isArray |-> TRUE, value |-> leftovers]]

\* ------------------------------------------------------------- dispatcher
running(tasks) == {i \in 1..Len(tasks) : tasks[i].st \in {"sending", "sleeping"}}

waiting(tasks) == {i \in 1..Len(tasks) : tasks[i].st = "waiting"}

\* Mutation of parallelLimit: async.parallel, which starts every task.
MutParallelLimit(tasks, limit) ==
    [i \in 1..Len(tasks) |->
        IF i \in waiting(tasks) THEN drain(tasks[i], tasks[i].records, 0) ELSE tasks[i]]

\* async.parallelLimit: start waiting tasks, in order, while fewer than
\* `limit` are running.
parallelLimit(tasks, limit) ==
    LET free == limit - Cardinality(running(tasks))
        start == {i \in waiting(tasks) : Cardinality({j \in waiting(tasks) : j < i}) < free}
    IN  [i \in 1..Len(tasks) |->
            IF i \in start THEN drain(tasks[i], tasks[i].records, 0) ELSE tasks[i]]

\* _.flatten, one level: an array contributes its elements, anything else itself
flatten(results) ==
    Concat([i \in 1..Len(results) |->
               IF results[i].isArray THEN results[i].value ELSE <<results[i].value>>])

allDone(tasks) == \A i \in 1..Len(tasks) : tasks[i].st = "done"

\* Mutation of parallelLimitCallback: the schema errors are left out.
MutParallelLimitCallback(sub) ==
    LET results == [i \in 1..Len(sub.tasks) |-> sub.tasks[i].result]
        allErrors == flatten(results)
    IN  IF ~isEmpty(allErrors)
        THEN [sub EXCEPT !.settled = "rejected", !.allErrors = allErrors]
        ELSE [sub EXCEPT !.settled = "resolved"]

\* The final callback of async.parallelLimit (err is always null: drain
\* never calls cb with an error).
parallelLimitCallback(sub) ==
    LET results == [i \in 1..Len(sub.tasks) |-> sub.tasks[i].result]
        allErrors == sub.invalidRecords \o flatten(results)
    IN  IF ~isEmpty(allErrors)
        THEN [sub EXCEPT !.settled = "rejected", !.allErrors = allErrors]
        ELSE [sub EXCEPT !.settled = "resolved"]

\* Mutation of dispatch: a chunk that failed as a whole is passed to cb as
\* err, on which async.parallelLimit calls the final callback at once.
MutDispatch(sub) ==
    LET s == [sub EXCEPT !.tasks = parallelLimit(@, maxDrains)]
    IN  IF allDone(s.tasks) THEN parallelLimitCallback(s)
        ELSE IF \E i \in 1..Len(s.tasks) : s.tasks[i].st = "done" /\ ~s.tasks[i].result.isArray
             THEN [s EXCEPT !.settled = "rejected", !.allErrors = s.invalidRecords]
             ELSE s

\* Start the tasks a free slot allows; when every task has called back,
\* run the final callback.
dispatch(sub) ==
    LET s == [sub EXCEPT !.tasks = parallelLimit(@, maxDrains)]
    IN  IF allDone(s.tasks) THEN parallelLimitCallback(s) ELSE s

\* DeliveryStream.putRecords(records); res and rej are the handlers the
\* caller attaches to the returned promise (0: none).
putRecords(records, res, rej) ==
    LET vr == validateRecords(records)
        formatted == Map(vr[1], formatRecord)
        chunks == chunk(formatted, maxIngestion)
    IN  dispatch([records |-> records,
                  invalidRecords |-> vr[2],
                  tasks |-> Map(chunks, waitingTask),
                  settled |-> "pending",
                  allErrors |-> <<>>,
                  resolver |-> res,
                  rejecter |-> rej,
                  viaQueue |-> res # 0 \/ rej # 0])

\* ------------------------------------------------ QueueableDeliveryStream
newPromise == [state |-> "pending", value |-> <<>>, by |-> 0]

\* Calling the resolve or reject function of promise h: a no-op once the
\* promise is settled.  `by` is history: the submission that settled it.
settle(hs, h, state, value, by) ==
    IF hs[h].state = "pending"
    THEN [hs EXCEPT ![h] = [state |-> state, value |-> value, by |-> by]]
    ELSE hs

\* Mutation of queueFull: the size trigger fires one record late.
MutQueueFull(q) == Len(q) > maxSize

\* this.queue.length >= this.maxSize
queueFull(q) == Len(q) >= maxSize

\* QueueableDeliveryStream.putRecords(records), called with the next k
\* unused records while at most `limit` records have been passed in all.
\* A caller runs either in a task of its own or as a reaction to the
\* settlement of the handle it was given.
QPutRecords(k, limit) ==
    /\ Len(owner) + k <= limit
    /\ resetPending = 0 \/ reacting
    /\ LET records == [i \in 1..k |-> Record(Len(owner) + i)]
           create == promise = 0
           h == IF create THEN Len(handles) + 1 ELSE promise
       IN  /\ queue' = queue \o records
           /\ handles' = IF create THEN Append(handles, newPromise) ELSE handles
           /\ promise' = h
           /\ resolver' = IF create THEN h ELSE resolver
           /\ rejecter' = IF create THEN h ELSE rejecter
           /\ queueFull(queue') => immediates < MaxImmediates
           /\ immediates' = IF queueFull(queue') THEN immediates + 1 ELSE immediates
           /\ owner' = owner \o [i \in 1..k |-> h]
    /\ UNCHANGED <<schema, subs, resetPending, reacting>>

\* The job queued by .then(this.resolver, this.rejecter) once submission s
\* has settled, and the queueing of the job that clears this.promise.
\* With a null handler the outcome passes through: a rejection then skips
\* the final .then(() => {...}), whose promise rejects with nobody
\* handling it; the process is taken to carry on after that.
thenHandlers(s, sub) ==
    LET h == IF sub.settled = "resolved" THEN sub.resolver ELSE sub.rejecter
    IN  IF h # 0
        THEN /\ handles' = settle(handles, h, sub.settled, sub.allErrors, s)
             /\ resetPending' = s
             /\ reacting' = (handles[h].state = "pending")
        ELSE /\ handles' = handles
             /\ resetPending' = IF sub.settled = "resolved" THEN s ELSE 0
             /\ reacting' = FALSE

\* What follows a change of submission s in the same task.
afterSub(s, sub) ==
    IF sub.viaQueue /\ sub.settled # "pending"
    THEN thenHandlers(s, sub)
    ELSE UNCHANGED <<handles, resetPending, reacting>>

\* Mutation of splice: slice, which leaves the array as it was.
MutSplice(array, start, deleteCount) ==
    [removed |-> SubSeq(array, start + 1, start + deleteCount),
     array |-> array]

\* Mutation of splice: only the first element is removed.
MutSpliceFirst(array, start, deleteCount) ==
    [removed |-> SubSeq(array, start + 1, Min(start + 1, Len(array))),
     array |-> SubSeq(array, 1, start) \o SubSeq(array, start + 2, Len(array))]

\* Array.prototype.splice(start, deleteCount): the removed elements and
\* what is left of the array.
splice(array, start, deleteCount) ==
    [removed |-> SubSeq(array, start + 1, start + deleteCount),
     array |-> SubSeq(array, 1, start) \o SubSeq(array, start + deleteCount + 1, Len(array))]

\* QueueableDeliveryStream.drainQueue()
drainQueue ==
    LET spliced == splice(queue, 0, Len(queue))
        toQueue == spliced.removed
    IN  /\ queue' = spliced.array
        /\ IF isEmpty(toQueue)
           THEN UNCHANGED <<subs, handles, resetPending, reacting>>
           ELSE LET sub == [putRecords(toQueue, resolver, rejecter) EXCEPT !.viaQueue = TRUE]
                IN  /\ subs' = Append(subs, sub)
                    /\ afterSub(Len(subs) + 1, sub)
        /\ UNCHANGED <<schema, promise, resolver, rejecter, owner>>

\* setInterval(this.drainQueue.bind(this), this.maxTime) fires.
Tick ==
    /\ resetPending = 0
    /\ drainQueue
    /\ UNCHANGED immediates

\* setImmediate(this.drainQueue.bind(this)) fires.
Immediate ==
    /\ resetPending = 0
    /\ immediates > 0
    /\ immediates' = immediates - 1
    /\ drainQueue

\* The final .then(() => {...}) of drainQueue.
Reset ==
    /\ resetPending # 0
    /\ promise' = 0
    /\ rejecter' = 0
    /\ resolver' = 0
    /\ resetPending' = 0
    /\ reacting' = FALSE
    /\ UNCHANGED <<schema, queue, handles, immediates, subs, owner>>

\* ----------------------------------------------------- transport and timer
\* The transport answers the putRecordBatch call of task c of submission s.
TransportRespond(s, c) ==
    /\ resetPending = 0
    /\ subs[s].tasks[c].st = "sending"
    /\ \E o \in BatchOutcomes(Len(subs[s].tasks[c].records)) :
          LET t == drainCallback(subs[s].tasks[c], o.firehoseErr, o.resp)
              sub1 == [subs[s] EXCEPT !.tasks[c] = t]
              sub2 == IF t.st = "done" THEN dispatch(sub1) ELSE sub1
          IN  /\ subs' = [subs EXCEPT ![s] = sub2]
              /\ afterSub(s, sub2)
    /\ UNCHANGED <<schema, queue, promise, resolver, rejecter, immediates, owner>>

\* The setTimeout of drain fires after retryInterval.
RetryTimeout(s, c) ==
    /\ resetPending = 0
    /\ subs[s].tasks[c].st = "sleeping"
    /\ subs' = [subs EXCEPT ![s].tasks[c] = drain(@, @.records, @.numRetries + 1)]
    /\ UNCHANGED <<schema, queue, promise, resolver, rejecter, handles, immediates,
                   resetPending, reacting, owner>>

\* DeliveryStream.putRecords(records) called directly with n fresh records.
DSPutRecords(n) ==
    /\ subs = <<>>
    /\ LET records == [i \in 1..n |-> Record(i)]
       IN  subs' = <<putRecords(records, 0, 0)>>
    /\ owner' = [i \in 1..n |-> 0]
    /\ UNCHANGED <<schema, queue, promise, resolver, rejecter, handles, immediates,
                   resetPending, reacting>>

\* ---------------------------------------------------------- specifications
Init ==
    /\ schema \in Schemas
    /\ queue = <<>>
    /\ promise = 0
    /\ resolver = 0
    /\ rejecter = 0
    /\ handles = <<>>
    /\ immediates = 0
    /\ subs = <<>>
    /\ resetPending = 0
    /\ reacting = FALSE
    /\ owner = <<>>

\* A QueueableDeliveryStream and its callers.
Next ==
    \/ \E k \in 0..MaxBatch : QPutRecords(k, MaxRecords)
    \/ Tick
    \/ Immediate
    \/ Reset
    \/ \E s \in 1..Len(subs) : \E c \in 1..Len(subs[s].tasks) : TransportRespond(s, c)
    \/ \E s \in 1..Len(subs) : \E c \in 1..Len(subs[s].tasks) : RetryTimeout(s, c)

Spec == Init /\ [][Next]_vars

\* The same, with more records passed one at a time.
NextWide ==
    \/ \E k \in 0..1 : QPutRecords(k, WideRecords)
    \/ Tick
    \/ Immediate
    \/ Reset
    \/ \E s \in 1..Len(subs) : \E c \in 1..Len(subs[s].tasks) : TransportRespond(s, c)
    \/ \E s \in 1..Len(subs) : \E c \in 1..Len(subs[s].tasks) : RetryTimeout(s, c)

SpecWide == Init /\ [][NextWide]_vars

\* A plain DeliveryStream and one putRecords call.
NextDS ==
    \/ \E n \in 0..MaxDirect : DSPutRecords(n)
    \/ \E s \in 1..Len(subs) : \E c \in 1..Len(subs[s].tasks) : TransportRespond(s, c)
    \/ \E s \in 1..Len(subs) : \E c \in 1..Len(subs[s].tasks) : RetryTimeout(s, c)

SpecDS == Init /\ [][NextDS]_vars

\* A plain DeliveryStream and one putRecords call of fewer records, with a
\* transport that answers every putRecordBatch call and timers that fire.
NextDSFair ==
    \/ \E n \in 0..MaxLive : DSPutRecords(n)
    \/ \E s \in 1..Len(subs) : \E c \in 1..Len(subs[s].tasks) : TransportRespond(s, c)
    \/ \E s \in 1..Len(subs) : \E c \in 1..Len(subs[s].tasks) : RetryTimeout(s, c)

SpecDSFair ==
    /\ Init /\ [][NextDSFair]_vars
    /\ WF_vars(\E s \in 1..Len(subs) : \E c \in 1..Len(subs[s].tasks) : TransportRespond(s, c))
    /\ WF_vars(\E s \in 1..Len(subs) : \E c \in 1..Len(subs[s].tasks) : RetryTimeout(s, c))

\* ================================================================ claims
\* The submissions that hold Record(i).
subsOf(i) == {s \in 1..Len(subs) : Record(i) \in Range(subs[s].records)}

occurrences(seq, x) == Cardinality({j \in 1..Len(seq) : seq[j] = x})

\* No task, timer, transport call or promise job is outstanding.
Quiescent ==
    /\ queue = <<>>
    /\ immediates = 0
    /\ resetPending = 0
    /\ \A s \in 1..Len(subs) : subs[s].settled # "pending"

\* C1: a handle returned by QueueableDeliveryStream.putRecords is settled
\* only by the submission that contains the records of the call it was
\* returned to, and with that submission's outcome.
C1_SettledByOwnSubmission ==
    \A i \in 1..Len(owner) :
        (owner[i] # 0 /\ handles[owner[i]].state # "pending") =>
            /\ handles[owner[i]].by \in subsOf(i)
            /\ handles[owner[i]].state = subs[handles[owner[i]].by].settled
            /\ handles[owner[i]].value = subs[handles[owner[i]].by].allErrors

\* C2: a putRecords call made while a flushed submission is in flight (its
\* record is not in that submission and was passed after the records that
\* are) returns a handle different from the one of the flushed callers.
C2_FreshHandleWhileInFlight ==
    \A s \in 1..Len(subs) :
        (subs[s].viaQueue /\ subs[s].settled = "pending") =>
            \A i \in 1..Len(owner) : \A j \in 1..Len(owner) :
                (s \in subsOf(i) /\ s \notin subsOf(j) /\ j > i) => owner[j] # owner[i]

\* C3: once nothing is outstanding any more, every handle returned to a
\* caller that passed records is settled.
C3_SettledWhenQuiescent ==
    Quiescent => \A i \in 1..Len(owner) :
                    owner[i] # 0 => handles[owner[i]].state # "pending"

\* C4: every record passed to QueueableDeliveryStream.putRecords is either
\* still in the buffer or in exactly one submission, never in both and
\* never twice.
C4_ExactlyOneSubmission ==
    \A i \in 1..Len(owner) :
        owner[i] # 0 =>
            /\ occurrences(queue, Record(i)) + Cardinality(subsOf(i)) = 1
            /\ \A s \in subsOf(i) : occurrences(subs[s].records, Record(i)) = 1

\* C4 witness: a record passed while an earlier submission was in flight
\* has been flushed in a submission of its own.
C4_Witness ==
    \E s1 \in 1..Len(subs) : \E s2 \in 1..Len(subs) :
        /\ s1 < s2
        /\ subs[s1].settled = "pending"
        /\ \E i \in 1..Len(owner) : subsOf(i) = {s2}
        /\ \E i \in 1..Len(owner) : subsOf(i) = {s1}

\* C5: the error list of every failed submission started by drainQueue is
\* the rejection value of a handle returned to a caller.
C5_FailureDelivered ==
    \A s \in 1..Len(subs) :
        (subs[s].viaQueue /\ subs[s].settled = "rejected") =>
            \E h \in 1..Len(handles) :
                /\ handles[h].state = "rejected"
                /\ handles[h].by = s
                /\ handles[h].value = subs[s].allErrors

\* ------------------------------------------------ claims on DeliveryStream
lastOf(seq) == seq[Len(seq)]

\* The positions of a per-record response that report a failure.
failedPositions(resp) ==
    {p \in 1..Len(resp.RequestResponses) : "ErrorCode" \in DOMAIN resp.RequestResponses[p]}

\* The tasks of a submission whose last transport call failed as a whole.
batchFailed(sub) ==
    {c \in 1..Len(sub.tasks) :
        sub.tasks[c].resps # <<>> /\ lastOf(sub.tasks[c].resps).firehoseErr # NULL}

\* C6: when a transport call errors as a whole, on the first or on a later
\* attempt, it is the last call for that chunk, and the chunk reports one
\* error with a null originalRecord and the transport error as details;
\* the submission's list holds one such error per chunk that failed so.
C6_TotalFailureTerminal ==
    \A s \in 1..Len(subs) :
        /\ \A c \in 1..Len(subs[s].tasks) : \A k \in 1..Len(subs[s].tasks[c].resps) :
              subs[s].tasks[c].resps[k].firehoseErr # NULL =>
                  /\ k = Len(subs[s].tasks[c].resps)
                  /\ Len(subs[s].tasks[c].sent) = k
                  /\ subs[s].tasks[c].st = "done"
                  /\ ~subs[s].tasks[c].result.isArray
                  /\ subs[s].tasks[c].result.value.originalRecord = NULL
                  /\ subs[s].tasks[c].result.value.details = subs[s].tasks[c].resps[k].firehoseErr
        /\ subs[s].settled # "pending" =>
              Cardinality({j \in 1..Len(subs[s].allErrors) :
                              subs[s].allErrors[j].originalRecord = NULL})
                  = Cardinality(batchFailed(subs[s]))

\* C6 witness: a chunk's retry attempt failed as a whole and the
\* submission has settled.
C6_Witness ==
    \E s \in 1..Len(subs) : \E c \in 1..Len(subs[s].tasks) :
        /\ subs[s].settled = "rejected"
        /\ c \in batchFailed(subs[s])
        /\ Len(subs[s].tasks[c].resps) > 1

\* C7: a chunk that is still failing after maxRetries retries reports one
\* error per record that failed on the final attempt, each with that
\* failure's code and message and the Record the caller submitted.
C7_ResidualCarriesCallerRecord ==
    \A s \in 1..Len(subs) : \A c \in 1..Len(subs[s].tasks) :
        (/\ subs[s].tasks[c].st = "done"
         /\ subs[s].tasks[c].numRetries = maxRetries
         /\ subs[s].tasks[c].result.isArray) =>
            LET t == subs[s].tasks[c]
                rr == lastOf(t.resps).resp.RequestResponses
                failed == failedPositions(lastOf(t.resps).resp)
            IN  /\ Len(t.result.value) = Cardinality(failed)
                /\ \A p \in failed : \E j \in 1..Len(t.result.value) :
                      /\ t.result.value[j].details.ErrorCode = rr[p].ErrorCode
                      /\ t.result.value[j].description = rr[p].ErrorMessage
                      /\ t.result.value[j].originalRecord \in Range(subs[s].records)
                      /\ formatRecord(t.result.value[j].originalRecord) = lastOf(t.sent)[p]

\* C8: a chunk is sent at most maxRetries + 1 times, and every retry sends
\* a subset of the records of the attempt before it.
C8_BoundedShrinkingRetries ==
    \A s \in 1..Len(subs) : \A c \in 1..Len(subs[s].tasks) :
        /\ Len(subs[s].tasks[c].sent) <= maxRetries + 1
        /\ \A k \in 2..Len(subs[s].tasks[c].sent) :
              Range(subs[s].tasks[c].sent[k]) \subseteq Range(subs[s].tasks[c].sent[k - 1])

\* C8 witness: a chunk has used all its retries and a retry sent strictly
\* fewer records than the first attempt.
C8_Witness ==
    \E s \in 1..Len(subs) : \E c \in 1..Len(subs[s].tasks) :
        /\ Len(subs[s].tasks[c].sent) = maxRetries + 1
        /\ Len(subs[s].tasks[c].sent[2]) < Len(subs[s].tasks[c].sent[1])
        /\ subs[s].tasks[c].st = "done"

\* C9: in a submission at most maxDrains chunks have started and not yet
\* reported their terminal result, chunks between retries included.
C9_AtMostMaxDrains ==
    \A s \in 1..Len(subs) :
        Cardinality({c \in 1..Len(subs[s].tasks) :
                        subs[s].tasks[c].sent # <<>> /\ subs[s].tasks[c].result = NULL})
            <= maxDrains

\* C9 witness: maxDrains chunks are running, one of them waiting between
\* retries, while a further chunk has not started.
C9_Witness ==
    \E s \in 1..Len(subs) :
        /\ Cardinality(running(subs[s].tasks)) = maxDrains
        /\ \E c \in 1..Len(subs[s].tasks) : subs[s].tasks[c].st = "sleeping"
        /\ \E c \in 1..Len(subs[s].tasks) : subs[s].tasks[c].sent = <<>>

RECURSIVE Sum(_)
Sum(ns) == IF ns = <<>> THEN 0 ELSE Head(ns) + Sum(Tail(ns))

\* The records of a submission that the schema rejects.
schemaRejected(sub) ==
    IF schema = NULL THEN {}
    ELSE {j \in 1..Len(sub.records) : sub.records[j].text \in schema.rejects}

\* The number of errors a finished chunk is left with: one for a call that
\* failed as a whole, else one per record that failed on the last attempt.
residual(sub, c) ==
    IF c \in batchFailed(sub) THEN 1
    ELSE Cardinality(failedPositions(lastOf(sub.tasks[c].resps).resp))

\* C10: a settled submission has resolved exactly if no record was rejected
\* by the schema and no chunk is left with an error; else it has rejected
\* with a list holding one schema error per rejected record, one error per
\* record that failed on a chunk's last attempt, one per chunk that failed
\* as a whole, and nothing else.
C10_AggregateDecidesOutcome ==
    \A s \in 1..Len(subs) :
        subs[s].settled # "pending" =>
            LET sub == subs[s]
                chunks == 1..Len(sub.tasks)
                total == Cardinality(schemaRejected(sub))
                         + Sum([c \in chunks |-> residual(sub, c)])
            IN  /\ \A c \in chunks : sub.tasks[c].resps # <<>> /\ sub.tasks[c].st = "done"
                /\ (sub.settled = "resolved") <=> (total = 0)
                /\ Len(sub.allErrors) = total
                /\ \A j \in schemaRejected(sub) :
                      \E e \in 1..Len(sub.allErrors) :
                          /\ sub.allErrors[e].type = "schema"
                          /\ sub.allErrors[e].originalRecord = sub.records[j]
                /\ \A c \in chunks \ batchFailed(sub) :
                      \A p \in failedPositions(lastOf(sub.tasks[c].resps).resp) :
                          \E e \in 1..Len(sub.allErrors) :
                              /\ sub.allErrors[e].type = "firehose"
                              /\ sub.allErrors[e].originalRecord = lastOf(sub.tasks[c].sent)[p]
                /\ \A c \in batchFailed(sub) :
                      \E e \in 1..Len(sub.allErrors) :
                          sub.allErrors[e].details = lastOf(sub.tasks[c].resps).firehoseErr

\* C10 witness: a submission of several chunks has rejected with a schema
\* error and a record error, while another of its records was delivered.
C10_Witness ==
    \E s \in 1..Len(subs) :
        /\ subs[s].settled = "rejected"
        /\ Len(subs[s].tasks) > 1
        /\ schemaRejected(subs[s]) # {}
        /\ \E c \in 1..Len(subs[s].tasks) :
              /\ c \notin batchFailed(subs[s])
              /\ failedPositions(lastOf(subs[s].tasks[c].resps).resp) # {}
        /\ Len(subs[s].allErrors) < Len(subs[s].records)

\* C11: a record the schema rejects is in no batch passed to the transport,
\* first attempt or retry, and a settled submission reports exactly one
\* schema error for it; every other record is in the chunk of exactly one
\* task.
C11_RejectedNeverSent ==
    \A s \in 1..Len(subs) : \A j \in 1..Len(subs[s].records) :
        IF j \in schemaRejected(subs[s])
        THEN /\ \A c \in 1..Len(subs[s].tasks) :
                  /\ formatRecord(subs[s].records[j]) \notin Range(subs[s].tasks[c].records)
                  /\ \A k \in 1..Len(subs[s].tasks[c].sent) :
                        formatRecord(subs[s].records[j]) \notin Range(subs[s].tasks[c].sent[k])
             /\ subs[s].settled # "pending" =>
                  Cardinality({e \in 1..Len(subs[s].allErrors) :
                                  /\ subs[s].allErrors[e].type = "schema"
                                  /\ subs[s].allErrors[e].originalRecord = subs[s].records[j]}) = 1
        ELSE Cardinality({c \in 1..Len(subs[s].tasks) :
                            formatRecord(subs[s].records[j]) \in
                                Range(IF subs[s].tasks[c].sent = <<>>
                                      THEN subs[s].tasks[c].records
                                      ELSE subs[s].tasks[c].sent[1])}) = 1

\* C11 witness: a submission with a rejected record has settled after a
\* chunk of its valid records was retried.
C11_Witness ==
    \E s \in 1..Len(subs) :
        /\ schemaRejected(subs[s]) # {}
        /\ subs[s].settled = "rejected"
        /\ \E c \in 1..Len(subs[s].tasks) : Len(subs[s].tasks[c].sent) > 1

\* C12: while the buffer holds maxSize records or more, a flush scheduled
\* by putRecords is pending; when it runs it hands the whole buffer to the
\* dispatcher as one submission and leaves the buffer empty, so that no
\* later tick finds those records.
C12_SizeTriggeredFlush ==
    /\ [](Len(queue) >= maxSize => immediates > 0)
    /\ [][(immediates' < immediates /\ queue # <<>>) =>
              /\ Len(subs') = Len(subs) + 1
              /\ subs'[Len(subs')].records = queue
              /\ queue' = <<>>]_vars
    /\ [][(Len(queue') > Len(queue)) =>
              (immediates' = IF Len(queue') >= maxSize THEN immediates + 1 ELSE immediates)]_vars

\* C12 witness: maxSize records were passed, the scheduled flush has run
\* and they are all in one submission.
C12_Witness ==
    /\ immediates = 0
    /\ queue = <<>>
    /\ \E s \in 1..Len(subs) : Len(subs[s].records) >= maxSize

\* C13: once DeliveryStream.putRecords has been called, the submission
\* eventually resolves or rejects, given a transport that answers every
\* call and timers that fire.
C13_SubmissionSettles ==
    (subs # <<>>) ~> (subs # <<>> /\ subs[1].settled # "pending")

\* C13 witness: a submission has settled although a record failed on every
\* one of the maxRetries + 1 attempts of its chunk.
C13_Witness ==
    \E s \in 1..Len(subs) : \E c \in 1..Len(subs[s].tasks) :
        /\ subs[s].settled = "rejected"
        /\ Len(subs[s].tasks[c].resps) = maxRetries + 1
        /\ \A k \in 1..Len(subs[s].tasks[c].resps) :
              /\ subs[s].tasks[c].resps[k].firehoseErr = NULL
              /\ failedPositions(subs[s].tasks[c].resps[k].resp) # {}

\* The chunk a task was created with.
firstBatch(t) == IF t.sent = <<>> THEN t.records ELSE t.sent[1]

\* The records of a submission that the schema accepts, in their order.
validOf(sub) ==
    SelectSeq(sub.records, LAMBDA r : schema = NULL \/ r.text \notin schema.rejects)

\* C14: a submission settles only after every one of its chunks has been
\* sent at least once and has reached its terminal outcome, whatever the
\* outcome of the other chunks.
C14_NoChunkAbandoned ==
    \A s \in 1..Len(subs) :
        subs[s].settled # "pending" =>
            \A c \in 1..Len(subs[s].tasks) :
                /\ Len(subs[s].tasks[c].sent) >= 1
                /\ Len(subs[s].tasks[c].resps) = Len(subs[s].tasks[c].sent)
                /\ subs[s].tasks[c].result # NULL

\* C14 witness: the first chunk failed as a whole, another ran out of
\* retries, and a chunk that had to wait for a slot was sent and delivered
\* before the submission settled.
C14_Witness ==
    \E s \in 1..Len(subs) :
        /\ subs[s].settled = "rejected"
        /\ Len(subs[s].tasks) > maxDrains
        /\ 1 \in batchFailed(subs[s])
        /\ Len(subs[s].tasks[2].sent) = maxRetries + 1
        /\ subs[s].tasks[2].result.isArray /\ subs[s].tasks[2].result.value # <<>>
        /\ subs[s].tasks[Len(subs[s].tasks)].result = [isArray |-> TRUE, value |-> <<>>]

\* C15: N valid records and maxIngestion = M give ceil(N/M) chunks, all of
\* size M but possibly the last, whose concatenation is the formatted
\* valid records in their order; with N = 0 there is no chunk.
C15_ChunksPartitionInOrder ==
    \A s \in 1..Len(subs) :
        LET n == Len(validOf(subs[s]))
            chunks == [c \in 1..Len(subs[s].tasks) |-> firstBatch(subs[s].tasks[c])]
        IN  /\ Len(chunks) * maxIngestion >= n
            /\ Len(chunks) * maxIngestion < n + maxIngestion
            /\ \A c \in 1..Len(chunks) :
                  /\ Len(chunks[c]) >= 1
                  /\ c < Len(chunks) => Len(chunks[c]) = maxIngestion
            /\ Concat(chunks) = [j \in 1..n |-> formatRecord(validOf(subs[s])[j])]

\* C15 witness: five valid records went out as two full chunks and a last
\* chunk of one.
C15_Witness ==
    \E s \in 1..Len(subs) :
        /\ Len(validOf(subs[s])) = 2 * maxIngestion + 1
        /\ Len(subs[s].tasks) = 3
        /\ Len(firstBatch(subs[s].tasks[3])) = 1
        /\ subs[s].settled = "resolved"

\* The p-th smallest element of a set of positions.
nth(F, p) == CHOOSE x \in F : Cardinality({y \in F : y < x}) = p - 1

\* C16: every retry of a chunk sends the records that sat at the failed
\* positions of the response to the attempt before it, in their order, and
\* no other record.
C16_RetrySendsFailedPositions ==
    \A s \in 1..Len(subs) : \A c \in 1..Len(subs[s].tasks) :
        \A k \in 2..Len(subs[s].tasks[c].sent) :
            LET before == subs[s].tasks[c].sent[k - 1]
                failed == failedPositions(subs[s].tasks[c].resps[k - 1].resp)
            IN  subs[s].tasks[c].sent[k] =
                    [p \in 1..Cardinality(failed) |-> before[nth(failed, p)]]

\* C16 witness: both records of a chunk failed and were sent again, then
\* the first was reported ok and only the second was sent a third time.
C16_Witness ==
    \E s \in 1..Len(subs) : \E c \in 1..Len(subs[s].tasks) :
        /\ Len(subs[s].tasks[c].sent) = 3
        /\ Len(subs[s].tasks[c].sent[2]) = 2
        /\ subs[s].tasks[c].sent[3] = <<subs[s].tasks[c].sent[1][2]>>

\* C17: every batch passed to the transport, first attempt or retry, holds
\* at least one record and at most maxIngestion records.
C17_BatchSizeInRange ==
    \A s \in 1..Len(subs) : \A c \in 1..Len(subs[s].tasks) :
        \A k \in 1..Len(subs[s].tasks[c].sent) :
            /\ Len(subs[s].tasks[c].sent[k]) >= 1
            /\ Len(subs[s].tasks[c].sent[k]) <= maxIngestion

\* C17 witness: a full first batch was followed by a retry of one record.
C17_Witness ==
    \E s \in 1..Len(subs) : \E c \in 1..Len(subs[s].tasks) :
        /\ Len(subs[s].tasks[c].sent) >= 2
        /\ Len(subs[s].tasks[c].sent[1]) = maxIngestion
        /\ Len(subs[s].tasks[c].sent[2]) = 1

\* C18: a timer tick on a non-empty buffer starts one submission of the
\* whole buffer and leaves the buffer empty; on an empty buffer it starts
\* no submission and no transport call and changes neither the buffer nor
\* the current handle, resolver and rejecter.
C18_TickFlushesOrDoesNothing ==
    [][Tick =>
          IF queue = <<>>
          THEN UNCHANGED vars
          ELSE /\ Len(subs') = Len(subs) + 1
               /\ subs'[Len(subs')].records = queue
               /\ \A s \in 1..Len(subs) : subs'[s] = subs[s]
               /\ queue' = <<>>]_vars

\* C18 witness: the only record passed so far was flushed, which only a
\* tick can have done since the size trigger was never reached.
C18_Witness ==
    /\ Len(owner) = 1
    /\ immediates = 0
    /\ Len(subs) = 1
    /\ subs[1].viaQueue

\* C19: whenever the buffer holds a record, this.promise is a promise that
\* is not yet settled.
C19_BufferCoveredByPendingHandle ==
    queue # <<>> => (promise # 0 /\ handles[promise].state = "pending")

\* Whether the formatted record f was reported ok at position p of attempt
\* k of task t.
reportedOk(t, k, p, f) ==
    /\ t.sent[k][p] = f
    /\ t.resps[k].firehoseErr = NULL
    /\ p \notin failedPositions(t.resps[k].resp)

\* The number of times f was reported ok in a submission.
okCount(sub, f) ==
    Cardinality({x \in (1..Len(sub.tasks)) \X (1..(maxRetries + 2)) \X (1..maxIngestion) :
                    /\ x[2] <= Len(sub.tasks[x[1]].resps)
                    /\ x[3] <= Len(sub.tasks[x[1]].sent[x[2]])
                    /\ reportedOk(sub.tasks[x[1]], x[2], x[3], f)})

\* C20: a record reported ok is in no later batch of the submission; and
\* when a submission has settled without a call that failed as a whole,
\* every valid record was reported ok once or is once in the error list,
\* and not both.
C20_OkOrErrorExactlyOnce ==
    \A s \in 1..Len(subs) : \A j \in 1..Len(validOf(subs[s])) :
        LET sub == subs[s]
            f == formatRecord(validOf(sub)[j])
        IN  /\ \A c \in 1..Len(sub.tasks) : \A k \in 1..Len(sub.tasks[c].resps) :
                  \A p \in 1..Len(sub.tasks[c].sent[k]) :
                      reportedOk(sub.tasks[c], k, p, f) =>
                          /\ \A k2 \in 1..Len(sub.tasks[c].sent) :
                                k2 > k => f \notin Range(sub.tasks[c].sent[k2])
                          /\ \A c2 \in 1..Len(sub.tasks) :
                                c2 # c => f \notin Range(firstBatch(sub.tasks[c2]))
            /\ (sub.settled # "pending" /\ batchFailed(sub) = {}) =>
                  okCount(sub, f)
                  + Cardinality({e \in 1..Len(sub.allErrors) :
                                    sub.allErrors[e].originalRecord = f}) = 1

\* C20 witness: a submission has settled without a call that failed as a
\* whole, one record of a chunk delivered on a retry and the other not at
\* all.
C20_Witness ==
    \E s \in 1..Len(subs) : \E c \in 1..Len(subs[s].tasks) :
        /\ subs[s].settled = "rejected"
        /\ batchFailed(subs[s]) = {}
        /\ Len(subs[s].tasks[c].sent) = maxRetries + 1
        /\ Len(subs[s].tasks[c].sent[2]) = 2
        /\ Len(subs[s].tasks[c].result.value) = 1

====
